---- MODULE Spec2Model ----
(***************************************************************************)
(* Model of spiketools/utils/checks.py: array-orientation inference, axis  *)
(* resolution and time-bin normalisation.                                  *)
(*                                                                         *)
(* An array is represented by its shape (a sequence of dimension sizes):   *)
(* ndim, shape and size are all the orientation code reads.  Times and bin *)
(* widths are integers (a fixed-point scaling of seconds).  Python's None  *)
(* is the empty tuple and a present value x is the 1-tuple <<x>>.          *)
(***************************************************************************)
EXTENDS Integers, Sequences, FiniteSets, TLC

VARIABLES call, ret, time_range

vars == <<call, ret, time_range>>

\* ---------------------------------------------------------------- bounds
MaxNdim == 4
MaxDim == 5
MaxLstLen == 3
MaxT == 3
MaxW == 2
MaxEdges == 3
MaxEdgeVal == 2
MaxVals == 2
MaxVal == 2
MaxParams == 3
MaxPLen == 2
MaxStrLen == 1
MaxOpts == 2
MaxContents == 2

\* ------------------------------------------------------ program constants
NdimLimit == 4
SizeThreshold == 4

\* ------------------------------------------------------- python plumbing
None == <<>>
Some(x) == <<x>>

Return(v) == [exc |-> "none", val |-> v]
Raise(e) == [exc |-> e, val |-> "none"]

RECURSIVE SeqsUpTo(_, _)
SeqsUpTo(S, n) ==
    IF n = 0 THEN {<<>>}
    ELSE LET shorter == SeqsUpTo(S, n - 1)
         IN shorter \cup {Append(s, x) : s \in {t \in shorter : Len(t) = n - 1}, x \in S}

\* ---------------------------------------------------- check_param_options
\* A string is the sequence of its characters.
Chars == {"a", "A", "b"}

char_lower(c) == IF c = "A" THEN "a" ELSE c

str_lower(str) == [i \in 1..Len(str) |-> char_lower(str[i])]

\* spiketools.utils.base.lower_list: every string of the list lower-cased.
lower_list(lst) == [i \in 1..Len(lst) |-> str_lower(lst[i])]

in_list(el, lst) == \E i \in 1..Len(lst) : lst[i] = el

check_param_options_half(param, options, ignore_case) ==
    LET opts == IF ignore_case THEN lower_list(options) ELSE options
    IN IF ~in_list(param, opts) THEN Raise("ValueError") ELSE Return("None")

check_param_options(param, options, ignore_case) ==
    LET opts == IF ignore_case THEN lower_list(options) ELSE options
        prm == IF ignore_case THEN str_lower(param) ELSE param
    IN IF ~in_list(prm, opts) THEN Raise("ValueError") ELSE Return("None")

\* ------------------------------------------------------ check_list_options
RECURSIVE check_list_options_from(_, _, _)
check_list_options_from(contents, options, i) ==
    IF i > Len(contents) THEN Return("None")
    ELSE LET r == check_param_options(contents[i], options, FALSE)
         IN IF r.exc # "none" THEN r
            ELSE check_list_options_from(contents, options, i + 1)

check_list_options(contents, options) ==
    check_list_options_from(contents, options, 1)

\* ----------------------------------------------------- check_param_lengths
\* A collection of params is represented by its length, all the code reads.
other_params_skipping(params) == SubSeq(params, 3, Len(params))

\* params[1:]
other_params(params) == SubSeq(params, 2, Len(params))

RECURSIVE same_length(_, _, _)
same_length(rest, plen, i) ==
    IF i > Len(rest) THEN TRUE
    ELSE IF rest[i] # plen THEN FALSE
    ELSE same_length(rest, plen, i + 1)

truthy_length(expected_length) ==
    expected_length # <<>> /\ expected_length[1] # 0

check_param_lengths(params, expected_length) ==
    IF Len(params) = 0 THEN Raise("IndexError")
    ELSE LET plen == params[1]
         IN IF ~same_length(other_params(params), plen, 1) THEN Raise("ValueError")
            ELSE IF truthy_length(expected_length) /\ plen # expected_length[1]
                 THEN Raise("ValueError")
            ELSE Return("None")

\* ----------------------------------------------------------- ndarray view
ndim(arr) == Len(arr)

RECURSIVE size(_)
size(arr) == IF arr = <<>> THEN 1 ELSE arr[1] * size(Tail(arr))

ZeroInShape(arr) == \E i \in 1..Len(arr) : arr[i] = 0

\* ------------------------------------------------ check_array_orientation
check_array_orientation_strict(arr) ==
    IF ~(ndim(arr) < NdimLimit) THEN Raise("AssertionError")
    ELSE IF ndim(arr) = 1 THEN Return("vector")
    ELSE IF ndim(arr) = 0 THEN Raise("IndexError")
    ELSE IF ZeroInShape(arr)
         THEN IF arr[Len(arr)] = 0 THEN Return("row")
              ELSE IF arr[Len(arr) - 1] = 0 THEN Return("column")
              ELSE Raise("UnboundLocalError")
         ELSE IF arr[Len(arr)] > arr[Len(arr) - 1] THEN Return("row")
              ELSE Return("column")

check_array_orientation_swapped(arr) ==
    IF ~(ndim(arr) < NdimLimit) THEN Raise("AssertionError")
    ELSE IF ndim(arr) = 1 THEN Return("vector")
    ELSE IF ndim(arr) = 0 THEN Raise("IndexError")
    ELSE IF ZeroInShape(arr)
         THEN IF arr[Len(arr) - 1] = 0 THEN Return("row")
              ELSE IF arr[Len(arr)] = 0 THEN Return("column")
              ELSE Raise("UnboundLocalError")
         ELSE IF arr[Len(arr)] >= arr[Len(arr) - 1] THEN Return("row")
              ELSE Return("column")

\* ndim 0 (shape ()) is not 1-D and holds no zero, so shape[-1] is indexed.
check_array_orientation(arr) ==
    IF ~(ndim(arr) < NdimLimit) THEN Raise("AssertionError")
    ELSE IF ndim(arr) = 1 THEN Return("vector")
    ELSE IF ndim(arr) = 0 THEN Raise("IndexError")
    ELSE IF ZeroInShape(arr)
         THEN IF arr[Len(arr)] = 0 THEN Return("row")
              ELSE IF arr[Len(arr) - 1] = 0 THEN Return("column")
              ELSE Raise("UnboundLocalError")
         ELSE IF arr[Len(arr)] >= arr[Len(arr) - 1] THEN Return("row")
              ELSE Return("column")

\* -------------------------------------------- check_array_lst_orientation
RECURSIVE find_array_ge(_, _)
find_array_ge(arr_lst, i) ==
    IF i > Len(arr_lst) THEN arr_lst[1]
    ELSE IF size(arr_lst[i]) >= SizeThreshold THEN arr_lst[i]
    ELSE find_array_ge(arr_lst, i + 1)

RECURSIVE find_array(_, _)
find_array(arr_lst, i) ==
    IF i > Len(arr_lst) THEN arr_lst[1]
    ELSE IF size(arr_lst[i]) > SizeThreshold THEN arr_lst[i]
    ELSE find_array(arr_lst, i + 1)

check_array_lst_orientation(arr_lst) ==
    IF Len(arr_lst) = 0 THEN Return("None")
    ELSE check_array_orientation(find_array(arr_lst, 1))

\* ------------------------------------------------------------- check_axis
AXISARG(orientation) ==
    CASE orientation = "vector" -> 0
      [] orientation = "row" -> 1
      [] orientation = "column" -> 0
      [] OTHER -> -1

truthy_axis(axis) == axis # None /\ axis[1] # 0

check_axis(axis, arr) ==
    IF ~truthy_axis(axis)
    THEN LET orientation == IF arr.isList
                            THEN check_array_lst_orientation(arr.lst)
                            ELSE check_array_orientation(arr.shape)
         IN IF orientation.exc # "none" THEN orientation
            ELSE Return(Some(AXISARG(orientation.val)))
    ELSE Return(axis)

\* ------------------------------------------------------ numpy primitives
\* np.arange(start, stop, step) on integers: ceil((stop - start) / step)
\* terms start + i * step, none when that length is not positive.
arange(start, stop, step) ==
    IF step = 0 THEN Raise("ZeroDivisionError")
    ELSE LET n == IF step > 0
                  THEN IF stop > start
                       THEN (stop - start + step - 1) \div step ELSE 0
                  ELSE IF start > stop
                       THEN (start - stop + (-step) - 1) \div (-step) ELSE 0
         IN Return([i \in 1..n |-> start + (i - 1) * step])

np_max(values) == CHOOSE m \in {values[i] : i \in 1..Len(values)} :
                      \A i \in 1..Len(values) : values[i] <= m

np_min(values) == CHOOSE m \in {values[i] : i \in 1..Len(values)} :
                      \A i \in 1..Len(values) : m <= values[i]

ndarray(edges) == [kind |-> "ndarray", w |-> 0, edges |-> edges]

\* ------------------------------------------------------- check_bin_range
\* A NaN entry of a values array (the times themselves are never negative).
NaN == -1

Finite(values) == SelectSeq(values, LAMBDA v : v # NaN)

\* np.nanmin / np.nanmax skip the NaN entries; of an all-NaN array they are
\* NaN, and a comparison with NaN is false.
np_nanmin(values) ==
    IF Len(Finite(values)) = 0 THEN NaN ELSE np_min(Finite(values))

np_nanmax(values) ==
    IF Len(Finite(values)) = 0 THEN NaN ELSE np_max(Finite(values))

check_bin_range(values, bin_area) ==
    IF Len(values) > 0
    THEN IF Len(bin_area) = 0 THEN [exc |-> "IndexError", warnings |-> 0]
         ELSE IF \/ np_nanmin(values) # NaN /\ np_nanmin(values) < bin_area[1]
                 \/ np_nanmax(values) # NaN /\ np_nanmax(values) > bin_area[Len(bin_area)]
              THEN [exc |-> "none", warnings |-> 1]
              ELSE [exc |-> "none", warnings |-> 0]
    ELSE [exc |-> "none", warnings |-> 0]

\* ------------------------------------------------------- check_time_bins
\* Range objects live in a heap of two cells: the caller's object and the
\* copy the call works on.  A reference is the name of a cell.
deepcopy_alias(heap, ref) == [ref |-> ref, heap |-> heap]

deepcopy(heap, ref) == [ref |-> "copy", heap |-> [heap EXCEPT !["copy"] = heap[ref]]]

truthy_range(obj) == obj # None /\ Len(obj[1]) > 0

inclusive_end_unadjusted(end, bins) == end

inclusive_end(end, bins) == end + bins

well_defined_nondecreasing(edges) ==
    \A i \in 1..(Len(edges) - 1) : edges[i + 1] - edges[i] >= 0

well_defined_unchecked(edges) == TRUE

well_defined_any(edges) ==
    \E i \in 1..(Len(edges) - 1) : edges[i + 1] - edges[i] > 0

well_defined(edges) ==
    \A i \in 1..(Len(edges) - 1) : edges[i + 1] - edges[i] > 0

data_range_unpadded(values, bins) == <<0, np_max(values)>>

\* Line 301: the range taken from the data when no time range is given.
data_range(values, bins) == <<0, np_max(values) + bins>>

\* Lines 294-306: the bin definition after the isinstance dispatch.
resolve_bins(bins, heap, ref, values) ==
    IF bins.kind = "scalar"
    THEN IF truthy_range(heap[ref])
         THEN LET old == heap[ref][1]
                  h1 == [heap EXCEPT ![ref] =
                            Some([old EXCEPT ![2] = inclusive_end(old[2], bins.w)])]
                  rng == h1[ref][1]
                  a == arange(rng[1], rng[2], bins.w)
              IN [exc |-> a.exc, heap |-> h1,
                  bins |-> IF a.exc = "none" THEN ndarray(a.val) ELSE bins]
         ELSE IF values = None
              THEN [exc |-> "AssertionError", heap |-> heap, bins |-> bins]
         ELSE IF Len(values[1]) = 0
              THEN [exc |-> "ValueError", heap |-> heap, bins |-> bins]
         ELSE LET rng == data_range(values[1], bins.w)
                  a == arange(rng[1], rng[2], bins.w)
              IN [exc |-> a.exc, heap |-> heap,
                  bins |-> IF a.exc = "none" THEN ndarray(a.val) ELSE bins]
    ELSE IF bins.kind = "ndarray"
         THEN IF well_defined(bins.edges)
              THEN [exc |-> "none", heap |-> heap, bins |-> bins]
              ELSE [exc |-> "AssertionError", heap |-> heap, bins |-> bins]
    ELSE [exc |-> "none", heap |-> heap, bins |-> bins]

check_time_bins(bins, heap, time_range_ref, values, check_range) ==
    LET cp == deepcopy(heap, time_range_ref)
        rb == resolve_bins(bins, cp.heap, cp.ref, values)
    IN IF rb.exc # "none"
       THEN [exc |-> rb.exc, val |-> "none", warnings |-> 0, heap |-> rb.heap]
       ELSE IF values # None /\ Len(values[1]) > 0 /\ check_range
            THEN LET c == check_bin_range(values[1], rb.bins.edges)
                 IN IF c.exc # "none"
                    THEN [exc |-> c.exc, val |-> "none", warnings |-> 0, heap |-> rb.heap]
                    ELSE [exc |-> "none", val |-> rb.bins,
                          warnings |-> c.warnings, heap |-> rb.heap]
            ELSE [exc |-> "none", val |-> rb.bins, warnings |-> 0, heap |-> rb.heap]

\* ----------------------------------------------------------------- inputs
Shapes == SeqsUpTo(0..MaxDim, MaxNdim)

LstShapes ==
    {<<2>>, <<4>>, <<5>>, <<2, 2>>, <<4, 1>>, <<3, 5>>, <<3, 2>>,
     <<0, 3>>, <<2, 2, 2>>, <<0, 3, 5>>}

ArrayLists == SeqsUpTo(LstShapes, MaxLstLen)

AxisArrs ==
    {[isList |-> FALSE, shape |-> s, lst |-> <<>>] : s \in Shapes}
    \cup {[isList |-> TRUE, shape |-> <<>>, lst |-> l] : l \in ArrayLists}

AxisArgs == {None, Some(0), Some(1), Some(-1), Some(2)}

TimeRanges ==
    {None, Some(<<>>)} \cup {Some(<<s, e>>) : s \in 0..MaxT, e \in 0..MaxT}

EdgeSeqs == SeqsUpTo(0..MaxEdgeVal, MaxEdges)

BinSpecs ==
    {[kind |-> "scalar", w |-> w, edges |-> <<>>] : w \in (-MaxW)..MaxW}
    \cup {[kind |-> k, w |-> 0, edges |-> e] : k \in {"ndarray", "list"}, e \in EdgeSeqs}

NanValues == SeqsUpTo({NaN} \cup 0..MaxVal, MaxVals)

ParamLengths == SeqsUpTo(0..MaxPLen, MaxParams)

ExpectedLengths == {<<>>} \cup {<<n>> : n \in 0..MaxPLen}

Strs == SeqsUpTo(Chars, MaxStrLen)

OptionLists == SeqsUpTo(Strs, MaxOpts)

ContentLists == SeqsUpTo(Strs, MaxContents)

ValueArgs == {None} \cup {Some(v) : v \in SeqsUpTo(0..MaxVal, MaxVals)}

\* ---------------------------------------------------------------- machine
\* The caller is idle (call.op = "none"), makes one call, observes what it
\* returned or raised, and becomes idle again.  time_range is the caller's
\* own range object, which lives across calls.
Idle == call.op = "none"

Init ==
    /\ call = [op |-> "none"]
    /\ ret = Return("none")
    /\ time_range = None

CallArrayOrientation ==
    /\ Idle
    /\ \E arr \in Shapes :
        /\ call' = [op |-> "check_array_orientation", arr |-> arr]
        /\ ret' = check_array_orientation(arr)
    /\ UNCHANGED time_range

CallArrayLstOrientation ==
    /\ Idle
    /\ \E arr_lst \in ArrayLists :
        /\ call' = [op |-> "check_array_lst_orientation", arr_lst |-> arr_lst]
        /\ ret' = check_array_lst_orientation(arr_lst)
    /\ UNCHANGED time_range

CallAxis ==
    /\ Idle
    /\ \E axis \in AxisArgs :
        \E arr \in AxisArrs :
            /\ call' = [op |-> "check_axis", axis |-> axis, arr |-> arr]
            /\ ret' = check_axis(axis, arr)
    /\ UNCHANGED time_range

Finish ==
    /\ ~Idle
    /\ call' = [op |-> "none"]
    /\ ret' = Return("none")
    /\ UNCHANGED time_range

\* The caller binds a new range object.
NewTimeRange ==
    /\ Idle
    /\ time_range' \in TimeRanges
    /\ UNCHANGED <<call, ret>>

TimeBinsCall(bins, values, check_range, again) ==
    LET r == check_time_bins(bins, [caller |-> time_range, copy |-> None],
                             "caller", values, check_range)
    IN /\ call' = [op |-> "check_time_bins", bins |-> bins, values |-> values,
                   check_range |-> check_range, time_range |-> time_range,
                   again |-> again]
       /\ ret' = [exc |-> r.exc, val |-> r.val, warnings |-> r.warnings]
       /\ time_range' = r.heap.caller

CallTimeBins ==
    /\ Idle
    /\ \E bins \in BinSpecs, values \in ValueArgs, check_range \in BOOLEAN :
           TimeBinsCall(bins, values, check_range, FALSE)

\* The caller makes the same call once more with the same range object.
RepeatTimeBins ==
    /\ call.op = "check_time_bins"
    /\ ~call.again
    /\ TimeBinsCall(call.bins, call.values, call.check_range, TRUE)

NextBins ==
    \/ NewTimeRange
    \/ CallTimeBins
    \/ RepeatTimeBins
    \/ Finish

SpecBins == Init /\ [][NextBins]_vars

\* The caller keeps the edges a call returned (first is the bin
\* specification that call was given).
HoldEdges ==
    /\ call.op = "check_time_bins"
    /\ "first" \notin DOMAIN call
    /\ ret.exc = "none"
    /\ call' = [op |-> "hold", bins |-> ret.val, first |-> call.bins]
    /\ ret' = Return("none")
    /\ UNCHANGED time_range

\* While holding edges the caller binds another range object.
RebindTimeRange ==
    /\ call.op = "hold"
    /\ time_range' \in TimeRanges
    /\ UNCHANGED <<call, ret>>

\* The held edges are passed to check_time_bins as its bins argument.
RecheckTimeBins ==
    /\ call.op = "hold"
    /\ \E values \in ValueArgs, check_range \in BOOLEAN :
           LET r == check_time_bins(call.bins, [caller |-> time_range, copy |-> None],
                                    "caller", values, check_range)
           IN /\ call' = [op |-> "check_time_bins", bins |-> call.bins,
                          values |-> values, check_range |-> check_range,
                          time_range |-> time_range, again |-> FALSE,
                          first |-> call.first]
              /\ ret' = [exc |-> r.exc, val |-> r.val, warnings |-> r.warnings]
              /\ time_range' = r.heap.caller

NextResolve ==
    \/ NewTimeRange
    \/ CallTimeBins
    \/ HoldEdges
    \/ RebindTimeRange
    \/ RecheckTimeBins
    \/ Finish

SpecResolve == Init /\ [][NextResolve]_vars

CallBinRange ==
    /\ Idle
    /\ \E values \in NanValues, bin_area \in EdgeSeqs :
           LET r == check_bin_range(values, bin_area)
           IN /\ call' = [op |-> "check_bin_range", values |-> values,
                          bin_area |-> bin_area]
              /\ ret' = [exc |-> r.exc, val |-> "none", warnings |-> r.warnings]
    /\ UNCHANGED time_range

CallParamLengths ==
    /\ Idle
    /\ \E params \in ParamLengths, expected_length \in ExpectedLengths :
           /\ call' = [op |-> "check_param_lengths", params |-> params,
                       expected_length |-> expected_length]
           /\ ret' = check_param_lengths(params, expected_length)
    /\ UNCHANGED time_range

CallParamOptions ==
    /\ Idle
    /\ \E param \in Strs, options \in OptionLists, ignore_case \in BOOLEAN :
           /\ call' = [op |-> "check_param_options", param |-> param,
                       options |-> options, ignore_case |-> ignore_case]
           /\ ret' = check_param_options(param, options, ignore_case)
    /\ UNCHANGED time_range

CallListOptions ==
    /\ Idle
    /\ \E contents \in ContentLists, options \in OptionLists :
           /\ call' = [op |-> "check_list_options", contents |-> contents,
                       options |-> options]
           /\ ret' = check_list_options(contents, options)
    /\ UNCHANGED time_range

NextChecks ==
    \/ CallBinRange
    \/ CallTimeBins
    \/ CallParamLengths
    \/ CallParamOptions
    \/ CallListOptions
    \/ Finish

SpecChecks == Init /\ [][NextChecks]_vars

Next ==
    \/ CallArrayOrientation
    \/ CallArrayLstOrientation
    \/ CallAxis
    \/ Finish

Spec == Init /\ [][Next]_vars

\* ================================================================ claims
IsOrientationCall == call.op = "check_array_orientation"

\* The decision rule on the last two dimension sizes (a = second-to-last,
\* b = last), as the claim states it.
StatedRule(a, b) ==
    IF b = 0 THEN "row"
    ELSE IF a = 0 THEN "column"
    ELSE IF b >= a THEN "row"
    ELSE "column"

\* C1: check_array_orientation gives 'vector' on every 1-D shape; on every
\* 2-D shape it follows the stated rule (last = 0 -> row, else second-to-last
\* = 0 -> column, else row iff last >= second-to-last); on a 3-D shape with no
\* zero-length dimension the last two sizes decide alone.
C1_DecisionRule ==
    IsOrientationCall =>
        /\ ndim(call.arr) = 1 => ret = Return("vector")
        /\ ndim(call.arr) = 2 =>
               ret = Return(StatedRule(call.arr[1], call.arr[2]))
        /\ (ndim(call.arr) = 3 /\ ~ZeroInShape(call.arr)) =>
               /\ ret = Return(StatedRule(call.arr[2], call.arr[3]))
               /\ ret = check_array_orientation(Tail(call.arr))

C1_Witness ==
    /\ IsOrientationCall
    /\ call.arr = <<3, 3>>
    /\ ret = Return("row")

\* C2 as stated: shape (0, n) gives 'row' and shape (n, 0) gives 'column',
\* for every n > 0.
C2_AsStated ==
    (IsOrientationCall /\ ndim(call.arr) = 2) =>
        /\ (call.arr[1] = 0 /\ call.arr[2] > 0) => ret = Return("row")
        /\ (call.arr[1] > 0 /\ call.arr[2] = 0) => ret = Return("column")

\* C2 (amended): for every n > 0, shape (0, n) gives 'column' (the
\* second-to-last dimension is the empty one) and shape (n, 0) gives 'row'
\* (the last dimension is the empty one).
C2_ZeroDimension ==
    (IsOrientationCall /\ ndim(call.arr) = 2) =>
        /\ (call.arr[1] = 0 /\ call.arr[2] > 0) => ret = Return("column")
        /\ (call.arr[1] > 0 /\ call.arr[2] = 0) => ret = Return("row")

C2_Witness ==
    /\ IsOrientationCall
    /\ call.arr = <<0, 5>>
    /\ ret = Return("column")

\* C3: check_array_orientation returns one of 'vector', 'row', 'column' on
\* every array of 1, 2 or 3 dimensions and fails with the dimensionality
\* assertion on every array of 4 or more dimensions.
C3_Total ==
    IsOrientationCall =>
        /\ ndim(call.arr) \in 1..3 =>
               /\ ret.exc = "none"
               /\ ret.val \in {"vector", "row", "column"}
        /\ ndim(call.arr) >= NdimLimit => ret = Raise("AssertionError")

\* The lowest-index array of more than four elements, or the first array.
Representative(arr_lst) ==
    LET big == {i \in 1..Len(arr_lst) : size(arr_lst[i]) > 4}
    IN IF big = {} THEN arr_lst[1]
       ELSE arr_lst[CHOOSE i \in big : \A k \in big : i <= k]

\* C4: check_array_lst_orientation gives None on the empty list and otherwise
\* the outcome of check_array_orientation on the representative array; the
\* list [size-2 vector, shape (3, 5)] gives 'row'.
C4_Representative ==
    call.op = "check_array_lst_orientation" =>
        /\ Len(call.arr_lst) = 0 => ret = Return("None")
        /\ Len(call.arr_lst) > 0 =>
               ret = check_array_orientation(Representative(call.arr_lst))
        /\ call.arr_lst = <<<<2>>, <<3, 5>>>> => ret = Return("row")

C4_Witness ==
    /\ call.op = "check_array_lst_orientation"
    /\ call.arr_lst = <<<<2, 2>>, <<4>>, <<3, 2>>>>
    /\ ret = Return("column")

\* An argument of check_axis inside the declared domain: an array of 1 to 3
\* dimensions or a list of such arrays.
DeclaredArr(arr) ==
    IF arr.isList
    THEN \A i \in 1..Len(arr.lst) : ndim(arr.lst[i]) \in 1..3
    ELSE ndim(arr.shape) \in 1..3

\* C5: check_axis returns a truthy axis unchanged; otherwise it returns the
\* mapping of the inferred orientation, a value in {0, 1, -1}: 0 for a 1-D
\* array, 0 for shape (5, 3), 1 for shape (3, 5), -1 for the empty list.
C5_AxisMapping ==
    (call.op = "check_axis" /\ DeclaredArr(call.arr)) =>
        IF truthy_axis(call.axis)
        THEN ret = Return(call.axis)
        ELSE /\ ret.exc = "none"
             /\ ret.val \in {Some(0), Some(1), Some(-1)}
             /\ (~call.arr.isList /\ ndim(call.arr.shape) = 1) => ret.val = Some(0)
             /\ (~call.arr.isList /\ call.arr.shape = <<5, 3>>) => ret.val = Some(0)
             /\ (~call.arr.isList /\ call.arr.shape = <<3, 5>>) => ret.val = Some(1)
             /\ (call.arr.isList /\ call.arr.lst = <<>>) => ret.val = Some(-1)

\* C6: every axis argument that is not None, the value 0 included, is
\* returned unchanged, whatever array or list of arrays (of 1 to 3
\* dimensions) arr is.
C6_NotNoneReturned ==
    (call.op = "check_axis" /\ call.axis # None /\ DeclaredArr(call.arr)) =>
        ret = Return(call.axis)

IsTimeBinsCall == call.op = "check_time_bins"

StrictlyIncreasing(edges) ==
    \A i \in 1..(Len(edges) - 1) : edges[i] < edges[i + 1]

\* edges is exactly the progression s, s + w, s + 2w, ... of all the terms
\* strictly below limit (w > 0).
IsProgressionBelow(edges, s, w, limit) ==
    /\ \A i \in 1..Len(edges) : edges[i] = s + (i - 1) * w /\ edges[i] < limit
    /\ s + Len(edges) * w >= limit

GivenRangeCall ==
    /\ IsTimeBinsCall
    /\ call.bins.kind = "scalar"
    /\ call.bins.w > 0
    /\ call.time_range # None
    /\ Len(call.time_range[1]) = 2

\* C7: with a scalar width w > 0 and a given range [s, e], check_time_bins
\* returns exactly the progression s, s + w, ... of all terms below e + w
\* (it does return whenever that progression has a term, in particular for
\* s <= e); the first edge is s, the last edge is >= e, and it equals e when
\* e - s is a non-negative multiple of w.  Width 1 on [0, 3] gives 0, 1, 2, 3.
C7_InclusiveProgression ==
    GivenRangeCall =>
        LET s == call.time_range[1][1]
            e == call.time_range[1][2]
            w == call.bins.w
        IN /\ s < e + w => ret.exc = "none"
           /\ ret.exc = "none" =>
                  LET edges == ret.val.edges
                  IN /\ ret.val.kind = "ndarray"
                     /\ IsProgressionBelow(edges, s, w, e + w)
                     /\ s < e + w =>
                            /\ Len(edges) > 0
                            /\ edges[1] = s
                            /\ edges[Len(edges)] >= e
                     /\ (e >= s /\ (e - s) % w = 0) => edges[Len(edges)] = e
                     /\ (s = 0 /\ e = 3 /\ w = 1) => edges = <<0, 1, 2, 3>>

C7_Witness ==
    /\ GivenRangeCall
    /\ call.time_range = Some(<<1, 3>>)
    /\ call.bins.w = 2
    /\ ret.exc = "none"
    /\ ret.val.edges = <<1, 3>>

\* C8: no call of check_time_bins, returning or raising, changes the caller's
\* time_range object, and the same call repeated with the same range object
\* has the same outcome.
C8_RangeNotMutated ==
    [][/\ call'.op = "check_time_bins" => time_range' = time_range
       /\ (IsTimeBinsCall /\ call'.op = "check_time_bins") => ret' = ret]_vars

C8_Witness ==
    /\ IsTimeBinsCall
    /\ call.again
    /\ call.bins.kind = "scalar"
    /\ call.bins.w = 1
    /\ call.time_range = Some(<<0, 2>>)
    /\ time_range = Some(<<0, 2>>)
    /\ ret.exc = "none"
    /\ ret.val.edges = <<0, 1, 2>>

ExplicitEdgesCall(kinds) ==
    /\ IsTimeBinsCall
    /\ call.bins.kind \in kinds

\* The range check indexes the first edge, which an empty edge array lacks.
RangeCheckOnEmpty ==
    /\ call.bins.edges = <<>>
    /\ call.check_range
    /\ call.values # None
    /\ Len(call.values[1]) > 0

\* C9 as stated: an explicit edge sequence, in whatever container, is returned
\* unchanged if strictly increasing and rejected with the ill-formed-bins
\* assertion otherwise.
C9_AsStated ==
    (ExplicitEdgesCall({"ndarray", "list"}) /\ ~RangeCheckOnEmpty) =>
        IF StrictlyIncreasing(call.bins.edges)
        THEN ret.exc = "none" /\ ret.val = call.bins
        ELSE ret.exc = "AssertionError"

\* C9 (amended): an explicit edge sequence held in a numpy array is returned
\* unchanged if strictly increasing (an empty array under a requested range
\* check against non-empty values raises IndexError instead) and rejected
\* with the ill-formed-bins assertion otherwise, e.g. [0, 2, 1] or [0, 1, 1];
\* an edge sequence held in a list is returned unchanged without validation.
C9_ArrayEdgesValidated ==
    /\ ExplicitEdgesCall({"ndarray"}) =>
           IF StrictlyIncreasing(call.bins.edges)
           THEN IF RangeCheckOnEmpty
                THEN ret.exc = "IndexError"
                ELSE ret.exc = "none" /\ ret.val = call.bins
           ELSE ret.exc = "AssertionError"
    /\ ExplicitEdgesCall({"list"}) =>
           IF RangeCheckOnEmpty
           THEN ret.exc = "IndexError"
           ELSE ret.exc = "none" /\ ret.val = call.bins

C9_Witness ==
    /\ ExplicitEdgesCall({"ndarray"})
    /\ call.bins.edges = <<0, 1, 1>>
    /\ ret.exc = "AssertionError"

\* C10 as stated: whatever the bin specification, a value check_time_bins
\* returns is an edge sequence with strictly positive consecutive differences.
C10_AsStated ==
    (IsTimeBinsCall /\ ret.exc = "none") => StrictlyIncreasing(ret.val.edges)

\* C10 (amended): whenever check_time_bins returns for a scalar width w > 0 or
\* for explicit edges held in a numpy array, the returned value is an edge
\* array with strictly positive consecutive differences.
C10_IncreasingEdges ==
    (/\ IsTimeBinsCall
     /\ ret.exc = "none"
     /\ \/ call.bins.kind = "scalar" /\ call.bins.w > 0
        \/ call.bins.kind = "ndarray") =>
        /\ ret.val.kind = "ndarray"
        /\ StrictlyIncreasing(ret.val.edges)

C10_Witness ==
    /\ IsTimeBinsCall
    /\ call.bins.kind = "scalar"
    /\ call.bins.w = 1
    /\ call.time_range = None
    /\ call.values = Some(<<2, 1>>)
    /\ ret.exc = "none"
    /\ ret.val.edges = <<0, 1, 2>>

\* A call whose bins argument is the edge array an earlier call returned.
IsRecheck == IsTimeBinsCall /\ "first" \in DOMAIN call

\* C11 as stated: whatever call returned the edge array E, check_time_bins(E,
\* ...) with any time_range and values succeeds and returns E unchanged.
C11_AsStated ==
    (IsRecheck /\ ~call.check_range) =>
        /\ ret.exc = "none"
        /\ ret.val = call.bins

\* C11 (amended): for every call with a scalar width w > 0 or with explicit
\* edges that returns E, check_time_bins(E, ...) with any time_range and
\* values returns E unchanged, unless E is empty and a range check against
\* non-empty values is requested (that check raises IndexError).
C11_Idempotent ==
    (IsRecheck /\ (call.first.kind = "scalar" => call.first.w > 0)) =>
        IF RangeCheckOnEmpty
        THEN ret.exc = "IndexError"
        ELSE /\ ret.exc = "none"
             /\ ret.val = call.bins

C11_Witness ==
    /\ IsRecheck
    /\ call.first.kind = "scalar"
    /\ call.first.w = 1
    /\ call.bins.edges = <<1, 2, 3>>
    /\ call.time_range = Some(<<3, 0>>)
    /\ call.values = Some(<<2>>)
    /\ call.check_range
    /\ ret.exc = "none"
    /\ ret.val = call.bins
    /\ ret.warnings = 0

NoRangeCall(ranges) ==
    /\ IsTimeBinsCall
    /\ call.bins.kind = "scalar"
    /\ call.time_range \in ranges

\* C12 as stated: with a scalar width w and no time_range, absent values fail
\* with the missing-parameter assertion, and present (non-empty) values give
\* the progression 0, w, 2w, ... of all terms strictly below max(values) + w.
C12_AsStated ==
    NoRangeCall({None}) =>
        IF call.values = None
        THEN ret.exc = "AssertionError"
        ELSE Len(call.values[1]) > 0 =>
                 /\ ret.exc = "none"
                 /\ IsProgressionBelow(ret.val.edges, 0, call.bins.w,
                                       np_max(call.values[1]) + call.bins.w)

\* C12 (amended): with a scalar width w and no time_range (None or an empty
\* list), absent values fail with the missing-parameter assertion whatever w
\* is and empty values fail in max(); with non-empty values and w > 0 the call
\* returns the progression 0, w, 2w, ... of all terms strictly below
\* max(values) + w, and every (non-negative) value lies within
\* [first edge, last edge]; with w < 0 a returned array holds the terms
\* 0, w, 2w, ... strictly above max(values) + w.
C12_DataRange ==
    NoRangeCall({None, Some(<<>>)}) =>
        LET w == call.bins.w
        IN IF call.values = None THEN ret.exc = "AssertionError"
           ELSE IF Len(call.values[1]) = 0 THEN ret.exc = "ValueError"
           ELSE LET values == call.values[1]
                    stop == np_max(values) + w
                IN /\ w > 0 =>
                       /\ ret.exc = "none"
                       /\ ret.val.kind = "ndarray"
                       /\ IsProgressionBelow(ret.val.edges, 0, w, stop)
                       /\ \A i \in 1..Len(values) :
                              /\ ret.val.edges[1] <= values[i]
                              /\ values[i] <= ret.val.edges[Len(ret.val.edges)]
                   /\ (w < 0 /\ ret.exc = "none") =>
                       /\ \A i \in 1..Len(ret.val.edges) :
                              /\ ret.val.edges[i] = (i - 1) * w
                              /\ ret.val.edges[i] > stop
                       /\ Len(ret.val.edges) * w <= stop

C12_Witness ==
    /\ NoRangeCall({None})
    /\ call.bins.w = 2
    /\ call.values = Some(<<1, 2>>)
    /\ call.check_range
    /\ ret.exc = "none"
    /\ ret.val.edges = <<0, 2>>
    /\ ret.warnings = 0

\* Some value that is not NaN lies below the first or above the last element.
BeyondBins(values, bin_area) ==
    \E i \in 1..Len(values) :
        /\ values[i] # NaN
        /\ values[i] < bin_area[1] \/ values[i] > bin_area[Len(bin_area)]

\* C13: check_bin_range never raises and warns exactly once iff values is
\* non-empty and its smallest or largest non-NaN entry lies outside
\* [first, last] of bin_area; within check_time_bins the check runs only with
\* check_range set and non-empty values, so without check_range nothing warns.
C13_WarnsNeverRaises ==
    /\ call.op = "check_bin_range" =>
           /\ ret.exc = "none"
           /\ ret.warnings = IF BeyondBins(call.values, call.bin_area) THEN 1 ELSE 0
    /\ (IsTimeBinsCall /\ ret.exc # "none") => ret.exc # "IndexError"
    /\ (IsTimeBinsCall /\ ret.exc = "none") =>
           ret.warnings = IF /\ call.check_range
                             /\ call.values # None
                             /\ BeyondBins(call.values[1], ret.val.edges)
                          THEN 1 ELSE 0

AllEqual(lens) == \A i, j \in 1..Len(lens) : lens[i] = lens[j]

\* lens arises from equal-length collections by changing the length of one.
OneLengthChanged(lens) ==
    \E i \in 1..Len(lens), n \in 0..(MaxPLen + 1) :
        /\ n # lens[i]
        /\ AllEqual([lens EXCEPT ![i] = n])

IsLengthsCall == call.op = "check_param_lengths" /\ Len(call.params) >= 1

\* C14 as stated: check_param_lengths succeeds on equal-length collections,
\* and fails once the length of any one collection is changed, for any number
\* of collections >= 1; a non-zero expected_length must equal the common
\* length.
C14_AsStated ==
    IsLengthsCall =>
        /\ (AllEqual(call.params) /\ call.expected_length = <<>>) =>
               ret.exc = "none"
        /\ OneLengthChanged(call.params) => ret.exc = "ValueError"
        /\ (AllEqual(call.params) /\ truthy_length(call.expected_length)
              /\ call.params[1] # call.expected_length[1]) =>
               ret.exc = "ValueError"

\* C14 (amended): check_param_lengths succeeds exactly when all collections
\* have the length of the first and that length equals a non-zero
\* expected_length, if given; so with two or more equal-length collections,
\* changing the length of any one makes it fail, while a single collection
\* succeeds whatever its length (unless it differs from expected_length).
C14_LengthMismatch ==
    IsLengthsCall =>
        /\ ret.exc \in {"none", "ValueError"}
        /\ ret.exc = "none" <=>
               /\ AllEqual(call.params)
               /\ truthy_length(call.expected_length) =>
                      call.params[1] = call.expected_length[1]
        /\ (Len(call.params) >= 2 /\ OneLengthChanged(call.params)) =>
               ret.exc = "ValueError"
        /\ (Len(call.params) = 1 /\ ~truthy_length(call.expected_length)) =>
               ret.exc = "none"

C14_Witness ==
    /\ IsLengthsCall
    /\ call.params = <<2, 2, 1>>
    /\ call.expected_length = <<>>
    /\ ret.exc = "ValueError"

SameOption(a, b, ignore_case) ==
    IF ignore_case THEN str_lower(a) = str_lower(b) ELSE a = b

\* C15: check_param_options succeeds iff param is among options, compared
\* after lower-casing both sides under ignore_case ('A' against ['a'] and 'a'
\* against ['A'] succeed) and exactly otherwise ('A' against ['a'] fails);
\* check_list_options succeeds iff every element of contents is an exact
\* member of options, so it succeeds on empty contents.
C15_OptionMembership ==
    /\ call.op = "check_param_options" =>
           /\ ret.exc \in {"none", "ValueError"}
           /\ ret.exc = "none" <=>
                  \E i \in 1..Len(call.options) :
                      SameOption(call.param, call.options[i], call.ignore_case)
           /\ (call.param = <<"A">> /\ call.options = <<<<"a">>>>) =>
                  (ret.exc = "none" <=> call.ignore_case)
           /\ (call.param = <<"a">> /\ call.options = <<<<"A">>>>) =>
                  (ret.exc = "none" <=> call.ignore_case)
    /\ call.op = "check_list_options" =>
           /\ ret.exc \in {"none", "ValueError"}
           /\ ret.exc = "none" <=>
                  \A k \in 1..Len(call.contents) :
                      \E i \in 1..Len(call.options) :
                          call.contents[k] = call.options[i]
           /\ call.contents = <<>> => ret.exc = "none"

C15_Witness ==
    /\ call.op = "check_param_options"
    /\ call.param = <<"A">>
    /\ call.options = <<<<"b">>, <<"a">>>>
    /\ call.ignore_case
    /\ ret.exc = "none"

====
